---- MODULE Spec2Model ----
(***************************************************************************)
(* Resumable multi-part upload: MultiPartUploader                          *)
(* (src/src/components/CollectionShare.tsx, lines 642-886).                *)
(*                                                                         *)
(* Sizes are counted in abstract units (one unit stands for a block of     *)
(* bytes).  Each upload task is a sequence of steps, one step per awaited  *)
(* call of the source together with the synchronous code that follows it.  *)
(* The tracking store (UploadLocksDB), the object-storage server and the   *)
(* caller that chooses between the fresh and the resume entry point are    *)
(* collaborators whose code is not part of the source file; they are       *)
(* modelled from their described contract.                                 *)
(***************************************************************************)
EXTENDS Integers, Sequences, FiniteSets, TLC

\* ------------------------------------------------------------------ bounds

\* Largest encrypted file size (in units) handed to the uploader.
MaxFileSize == 7

\* Largest number of resume attempts recorded per session (lastAttempted).
MaxAttempts == 2

\* Number of object keys the server can hand out.
MaxKeys == 2

\* ------------------------------------------------------- program constants

\* Part size for general users (package:photos/core/constants.dart).
multipartPartSize == 2

\* Part size for internal users (package:photos/core/constants.dart).
multipartPartSizeInternal == 3

\* ---------------------------------------------------------------- domains

Tasks == {1, 2}
Files == {1, 2}
Keys == 1..MaxKeys
FileSizes == 0..MaxFileSize
ETagValues == {"e1", "e2"}

\* File keys, file nonces (headers), collection keys and the nonces encryptSync
\* draws.
FileKeys == {"fk1", "fk2"}
FileNonces == {"fn1", "fn2"}
CollectionKeys == {"ck1", "ck2"}
BoxNonces == {"bn1", "bn2"}

\* Dart's nullable values: null is the empty tuple, a value v is <<v>>.
None == <<>>
Some(v) == <<v>>
OrElse(o, d) == IF o = None THEN d ELSE o[1]

\* What response.headers.value("etag") can be: null, "" or a token.
ETagHeaders == {None, Some("")} \cup {Some(e) : e \in ETagValues}

\* MultipartStatus and its order.
StatusRank(s) == CASE s = "pending" -> 0 [] s = "uploaded" -> 1 [] s = "completed" -> 2

\* ---------------------------------------------------------- pure functions

\* (a / b).ceil() for a >= 0, b > 0.
CeilDiv(a, b) == IF a % b = 0 THEN a \div b ELSE (a \div b) + 1

\* get multipartPartSizeForUpload
multipartPartSizeForUpload(internal) ==
    IF internal THEN multipartPartSizeInternal ELSE multipartPartSize

calculatePartCount_floor(fileSize, internal) ==
    IF ~internal THEN 1 ELSE fileSize \div multipartPartSizeForUpload(internal)

\* calculatePartCount
calculatePartCount(fileSize, internal) ==
    IF ~internal THEN 1 ELSE CeilDiv(fileSize, multipartPartSizeForUpload(internal))

\* "Go to the first part that is not uploaded": the index the first while
\* loop of _uploadParts stops at, for a nullable list of booleans.
RECURSIVE SkipFrom(_, _)
SkipFrom(status, i) ==
    IF i < Len(status) /\ status[i + 1] THEN SkipFrom(status, i + 1) ELSE i

FirstNotUploaded_noskip(partUploadStatus) == 0

FirstNotUploaded_skipsAll(partUploadStatus) == Len(OrElse(partUploadStatus, <<>>))

FirstNotUploaded(partUploadStatus) == SkipFrom(OrElse(partUploadStatus, <<>>), 0)

\* eTag?.isEmpty ?? true
ETagMissing_nullOnly(eTag) == eTag = None

ETagMissing(eTag) == IF eTag = None THEN TRUE ELSE eTag[1] = ""

\* A Dart Map<int, String> keeps insertion order: a sequence of <<key, value>>.
MapHas(m, key) == \E j \in 1..Len(m) : m[j][1] = key

MapPut_front(m, key, val) ==
    IF MapHas(m, key)
    THEN [j \in 1..Len(m) |-> IF m[j][1] = key THEN <<key, val>> ELSE m[j]]
    ELSE <<<<key, val>>>> \o m

\* etags[i] = eTag!
MapPut(m, key, val) ==
    IF MapHas(m, key)
    THEN [j \in 1..Len(m) |-> IF m[j][1] = key THEN <<key, val>> ELSE m[j]]
    ELSE Append(m, <<key, val>>)

\* isLastPart ? encryptedFile.lengthSync() % partSize : partSize
PartContentLength(i, partsLength, fileLen, partSize) ==
    IF i = partsLength - 1 THEN fileLen % partSize ELSE partSize

PartRange_overlapping(i, partsLength, fileLen, partSize) ==
    LET start == i * partSize
        stop == IF i = partsLength - 1 THEN fileLen ELSE (i + 1) * partSize + 1
        lo == IF start < fileLen THEN start ELSE fileLen
        hi == IF stop < fileLen THEN stop ELSE fileLen
    IN  <<lo, IF hi < lo THEN lo ELSE hi>>

\* The bytes encryptedFile.openRead(i * partSize, isLastPart ? null : (i+1) * partSize)
\* streams from a file of fileLen bytes: <<start, end>>, end exclusive.
PartRange(i, partsLength, fileLen, partSize) ==
    LET start == i * partSize
        stop == IF i = partsLength - 1 THEN fileLen ELSE (i + 1) * partSize
        lo == IF start < fileLen THEN start ELSE fileLen
        hi == IF stop < fileLen THEN stop ELSE fileLen
    IN  <<lo, IF hi < lo THEN lo ELSE hi>>

\* partEtags.entries.map((e) => PartETag(e.key + 1, e.value)).toList()
CompletionBody(partEtags) ==
    [j \in 1..Len(partEtags) |->
        [PartNumber |-> partEtags[j][1] + 1, ETag |-> partEtags[j][2]]]

\* CryptoUtil.bin2base64 and CryptoUtil.base642bin: the text form of a byte
\* string and the byte string of a text form.
bin2base64(bin) == <<"base64", bin>>

base642bin(text) == text[2]

\* CryptoUtil.encryptSync(source, key): an authenticated box of source under key
\* and the nonce it was made with (nonce is the one encryptSync draws).
encryptSync(source, key, nonce) ==
    [encryptedData |-> [plain |-> source, key |-> key, nonce |-> nonce],
     nonce |-> nonce]

\* CryptoUtil.decryptSync(cipher, key, nonce): the boxed bytes, or no value (it
\* throws) when the box was not made with this key and nonce.
decryptSync(cipher, key, nonce) ==
    IF cipher.key = key /\ cipher.nonce = nonce THEN Some(cipher.plain) ELSE None

getEncryptionResult_headerIsKeyNonce(data, collectionKey) ==
    LET encryptedFileKey == base642bin(data.encryptedFileKey)
        encryptKeyNonce == base642bin(data.keyNonce)
        key == decryptSync(encryptedFileKey, collectionKey, encryptKeyNonce)
    IN  IF key = None THEN None
        ELSE Some([key |-> key[1], header |-> encryptKeyNonce])

\* getEncryptionResult, after the store has returned the stored key material:
\* the EncryptionResult, or no value when decryptSync throws.
getEncryptionResult(data, collectionKey) ==
    LET encryptedFileKey == base642bin(data.encryptedFileKey)
        fileNonce == base642bin(data.fileNonce)
        encryptKeyNonce == base642bin(data.keyNonce)
        key == decryptSync(encryptedFileKey, collectionKey, encryptKeyNonce)
    IN  IF key = None THEN None
        ELSE Some([key |-> key[1], header |-> fileNonce])

\* ------------------------------------------------------------------ state

VARIABLES
    internalUser,   \* _featureFlagService.internalUser
    db,             \* UploadLocksDB: objectKey -> tracked upload row
    s3,             \* the storage server, per objectKey
    pc,             \* per task: the awaited call it executes next
    loc,            \* per task: the local variables of the running call
    hist            \* per task: what the running (or last) call has done

vars == <<internalUser, db, s3, pc, loc, hist>>

\* MultipartInfo(urls: urls): every other field keeps its default.
FreshInfo(key, partsLength) ==
    [objectKey |-> key, partsLength |-> partsLength, status |-> "pending",
     partUploadStatus |-> None, partETags |-> None, partSize |-> None]

NoInfo == FreshInfo(0, 0)

NoLoc ==
    [mode |-> "none", file |-> 0, fileLen |-> 0, partCount |-> 0, info |-> NoInfo,
     etags |-> <<>>, i |-> 0, partSize |-> 0, eTag |-> None]

NoPut ==
    [part |-> -1, range |-> <<0, 0>>, contentLength |-> 0,
     partsLength |-> 0, fileLen |-> 0, partSize |-> 0]

NoHist ==
    [mode |-> "none", info |-> NoInfo, result |-> "none", puts |-> <<>>,
     posts |-> 0, body |-> <<>>, lastPut |-> NoPut, ret |-> None, plan |-> None,
     keyIn |-> None]

\* Per objectKey: whether the key was handed out, for each part the last non-empty
\* identifier a PUT response carried, whether a finalize call has succeeded, and the
\* part (if any) whose latest PUT response carried no usable identifier.
NoServer == [issued |-> FALSE, parts |-> <<>>, completed |-> FALSE, missing |-> -1]

Init ==
    /\ internalUser \in BOOLEAN
    /\ db = <<>>
    /\ s3 = [k \in Keys |-> NoServer]
    /\ pc = [t \in Tasks |-> "idle"]
    /\ loc = [t \in Tasks |-> NoLoc]
    /\ hist = [t \in Tasks |-> NoHist]

\* ------------------------------------------------- UploadLocksDB (contract)

HasEntry(d, f) == \E k \in DOMAIN d : d[k].file = f

KeyOf(d, f) == CHOOSE k \in DOMAIN d : d[k].file = f

\* createTrackUploadsEntry: one row per (localId, fileHash, collectionID).
createTrackUploadsEntry(d, f, key, partsLength, fileSize, encKey, fileNonce, keyNonce, partSize) ==
    [k \in DOMAIN d \cup {key} |->
        IF k = key
        THEN [file |-> f, fileSize |-> fileSize, partsLength |-> partsLength,
              encryptedFileKey |-> encKey, fileNonce |-> fileNonce,
              keyNonce |-> keyNonce,
              partSize |-> partSize, status |-> "pending",
              partUploadStatus |-> [j \in 1..partsLength |-> FALSE],
              partETags |-> <<>>, lastAttempted |-> 0]
        ELSE d[k]]

\* The stored index -> ETag mapping as a Dart map, in ascending index order.
RECURSIVE EntriesBelow(_, _)
EntriesBelow(m, n) ==
    IF n = 0 THEN <<>>
    ELSE IF (n - 1) \in DOMAIN m
         THEN Append(EntriesBelow(m, n - 1), <<n - 1, m[n - 1]>>)
         ELSE EntriesBelow(m, n - 1)

\* getCachedLinks: the row of the tuple as a MultipartInfo.
getCachedLinks(d, f) ==
    LET row == d[KeyOf(d, f)]
    IN  [objectKey |-> KeyOf(d, f), partsLength |-> row.partsLength,
         status |-> row.status,
         partUploadStatus |-> Some(row.partUploadStatus),
         partETags |-> Some(EntriesBelow(row.partETags, row.partsLength)),
         partSize |-> Some(row.partSize)]

\* getFileEncryptionData: the stored key material of the tuple.
getFileEncryptionData(d, f) ==
    LET row == d[KeyOf(d, f)]
    IN  [encryptedFileKey |-> row.encryptedFileKey, fileNonce |-> row.fileNonce,
         keyNonce |-> row.keyNonce]

\* updateLastAttempted
updateLastAttempted(d, f) ==
    [d EXCEPT ![KeyOf(d, f)].lastAttempted = @ + 1]

\* updatePartStatus(objectKey, partNumber, etag)
updatePartStatus(d, key, i, eTag) ==
    IF key \notin DOMAIN d THEN d
    ELSE [d EXCEPT ![key].partUploadStatus =
                        [j \in 1..Len(@) |-> IF j = i + 1 THEN TRUE ELSE @[j]],
                   ![key].partETags =
                        [x \in DOMAIN @ \cup {i} |-> IF x = i THEN eTag ELSE @[x]]]

\* updateTrackUploadStatus(objectKey, status)
updateTrackUploadStatus(d, key, status) ==
    IF key \notin DOMAIN d THEN d ELSE [d EXCEPT ![key].status = status]

\* ---------------------------------------------------------------- helpers

\* The call of task t ends: by a return (result "ok") or by an exception.
EndCall(t, result, ret) ==
    /\ pc' = [pc EXCEPT ![t] = "idle"]
    /\ loc' = [loc EXCEPT ![t] = NoLoc]
    /\ hist' = [hist EXCEPT ![t].result = result, ![t].ret = ret]

EnterUploadParts_newETags(l, internal) ==
    [l EXCEPT !.etags = <<>>,
              !.i = FirstNotUploaded(l.info.partUploadStatus),
              !.partSize = OrElse(l.info.partSize, multipartPartSizeForUpload(internal))]

EnterUploadParts_currentTier(l, internal) ==
    [l EXCEPT !.etags = OrElse(l.info.partETags, <<>>),
              !.i = FirstNotUploaded(l.info.partUploadStatus),
              !.partSize = multipartPartSizeForUpload(internal)]

\* The first lines of _uploadParts, up to the second while loop.
EnterUploadParts(l, internal) ==
    [l EXCEPT !.etags = OrElse(l.info.partETags, <<>>),
              !.i = FirstNotUploaded(l.info.partUploadStatus),
              !.partSize = OrElse(l.info.partSize, multipartPartSizeForUpload(internal))]

\* while (i < partsLength): the next awaited call of _uploadParts.
LoopPc(l) == IF l.i < l.info.partsLength THEN "put" ELSE "updateTrackUploadStatus"

\* if (multipartInfo.status == MultipartStatus.pending)
ResumeUploadsParts_always(info) == TRUE

ResumeUploadsParts(info) == info.status = "pending"

\* if (multipartInfo.status != MultipartStatus.completed)
ResumeCompletes_always(info) == TRUE

ResumeCompletes_never(info) == FALSE

ResumeCompletes(info) == info.status # "completed"

\* Map<int, String> etags = multipartInfo.partETags ?? {};
ResumeETags_empty(info) == <<>>

ResumeETags(info) == OrElse(info.partETags, <<>>)

\* ---------------------------------------------------------- the fresh path

\* No running call works on the tuple f: the orchestrator is the single writer
\* of a session.
SingleWriter(f) == \A u \in Tasks : pc[u] # "idle" => loc[u].file # f

\* The caller plans a file that has no tracked upload: calculatePartCount.
\* A count of one part or more on the multi-part tier goes on to request URLs;
\* anything else is the single-shot path, which is not part of this model.
PlanFresh(t, f, fileSize) ==
    LET n == calculatePartCount(fileSize, internalUser)
        multi == internalUser /\ n >= 1
    IN  /\ pc[t] = "idle"
        /\ ~HasEntry(db, f)
        /\ pc' = [pc EXCEPT ![t] = IF multi THEN "getMultipartUploadURLs" ELSE "idle"]
        /\ loc' = [loc EXCEPT ![t] =
                     IF multi
                     THEN [NoLoc EXCEPT !.mode = "fresh", !.file = f,
                                        !.fileLen = fileSize, !.partCount = n]
                     ELSE NoLoc]
        /\ hist' = [hist EXCEPT ![t] =
                     [NoHist EXCEPT !.plan = Some([fileSize |-> fileSize,
                                                   internal |-> internalUser,
                                                   partCount |-> n]),
                                    !.mode = IF multi THEN "fresh" ELSE "none",
                                    !.result = IF multi THEN "none" ELSE "single"]]
        /\ UNCHANGED <<internalUser, db, s3>>

\* calculatePartCount, called by the single writer of the tuple.
CalculatePartCount(t, f, fileSize) == SingleWriter(f) /\ PlanFresh(t, f, fileSize)

\* getMultipartUploadURLs(count) returns an objectKey never handed out before
\* and count part URLs.
GetMultipartUploadURLs(t, key) ==
    /\ pc[t] = "getMultipartUploadURLs"
    /\ ~s3[key].issued
    /\ s3' = [s3 EXCEPT ![key].issued = TRUE,
                        ![key].parts = [j \in 1..loc[t].partCount |-> None]]
    /\ loc' = [loc EXCEPT ![t].info = FreshInfo(key, loc[t].partCount)]
    /\ hist' = [hist EXCEPT ![t].info = FreshInfo(key, loc[t].partCount)]
    /\ pc' = [pc EXCEPT ![t] = "createTableEntry"]
    /\ UNCHANGED <<internalUser, db>>

\* getMultipartUploadURLs rethrows (the request or the assertion failed).
GetMultipartUploadURLsFails(t) ==
    /\ pc[t] = "getMultipartUploadURLs"
    /\ EndCall(t, "PresignRequestFailed", None)
    /\ UNCHANGED <<internalUser, db, s3>>

CreateTableEntry_noCheck(t) ==
    /\ pc[t] = "createTableEntry"
    /\ db' = createTrackUploadsEntry(
                 db, loc[t].file, loc[t].info.objectKey, loc[t].info.partsLength,
                 loc[t].fileLen,
                 bin2base64(encryptSync("fk1", "ck1", "bn1").encryptedData),
                 bin2base64("fn1"),
                 bin2base64(encryptSync("fk1", "ck1", "bn1").nonce),
                 multipartPartSizeForUpload(internalUser))
    /\ pc' = [pc EXCEPT ![t] = "putMultipartFile"]
    /\ hist' = [hist EXCEPT ![t].keyIn = Some([fileKey |-> "fk1", fileNonce |-> "fn1",
                                               collectionKey |-> "ck1"])]
    /\ UNCHANGED <<internalUser, s3, loc>>

CreateTableEntry_skipsStore(t) ==
    /\ pc[t] = "createTableEntry"
    /\ pc' = [pc EXCEPT ![t] = "putMultipartFile"]
    /\ UNCHANGED <<internalUser, db, s3, loc, hist>>

\* createTableEntry(..., fileKey, fileNonce) while the collection has the key
\* collectionKey and encryptSync draws boxNonce.
CreateTableEntryWith(t, fileKey, fileNonce, collectionKey, boxNonce) ==
    LET encryptedResult == encryptSync(fileKey, collectionKey, boxNonce)
        keyIn == Some([fileKey |-> fileKey, fileNonce |-> fileNonce,
                       collectionKey |-> collectionKey])
    IN  /\ pc[t] = "createTableEntry"
        /\ IF HasEntry(db, loc[t].file)
           THEN /\ pc' = [pc EXCEPT ![t] = "idle"]
                /\ loc' = [loc EXCEPT ![t] = NoLoc]
                /\ hist' = [hist EXCEPT ![t].result = "SessionExists",
                                        ![t].ret = None, ![t].keyIn = keyIn]
                /\ UNCHANGED db
           ELSE /\ db' = createTrackUploadsEntry(
                             db, loc[t].file, loc[t].info.objectKey,
                             loc[t].info.partsLength, loc[t].fileLen,
                             bin2base64(encryptedResult.encryptedData),
                             bin2base64(fileNonce),
                             bin2base64(encryptedResult.nonce),
                             multipartPartSizeForUpload(internalUser))
                /\ pc' = [pc EXCEPT ![t] = "putMultipartFile"]
                /\ hist' = [hist EXCEPT ![t].keyIn = keyIn]
                /\ UNCHANGED loc
        /\ UNCHANGED <<internalUser, s3>>

\* createTableEntry for one file key, file nonce and collection key.
CreateTableEntry(t) == CreateTableEntryWith(t, "fk1", "fn1", "ck1", "bn1")

\* getEncryptionResult(localId, fileHash, collectionID) while the collection has
\* the key collectionKey: one awaited read of the store, then the decryption.
GetEncryptionResult(t, f, collectionKey) ==
    LET result == getEncryptionResult(getFileEncryptionData(db, f), collectionKey)
    IN  /\ pc[t] = "idle"
        /\ HasEntry(db, f)
        /\ hist' = [hist EXCEPT ![t] =
                      [NoHist EXCEPT
                          !.mode = "getEncryptionResult",
                          !.info = [NoInfo EXCEPT !.objectKey = KeyOf(db, f)],
                          !.keyIn = Some([collectionKey |-> collectionKey]),
                          !.result = IF result = None THEN "KeyMaterialError" ELSE "ok",
                          !.ret = result]]
        /\ UNCHANGED <<internalUser, db, s3, pc, loc>>

\* putMultipartFile, up to the first awaited call of _uploadParts.
PutMultipartFile(t) ==
    LET l == EnterUploadParts(
                 [loc[t] EXCEPT !.info = FreshInfo(loc[t].info.objectKey,
                                                   loc[t].info.partsLength)],
                 internalUser)
    IN  /\ pc[t] = "putMultipartFile"
        /\ loc' = [loc EXCEPT ![t] = l]
        /\ pc' = [pc EXCEPT ![t] = LoopPc(l)]
        /\ UNCHANGED <<internalUser, db, s3, hist>>

\* --------------------------------------------------------- the resume path

\* putExistingMultipartFile: _db.getCachedLinks.
LoadCached(t, f) ==
    /\ pc[t] = "idle"
    /\ HasEntry(db, f)
    /\ db[KeyOf(db, f)].lastAttempted < MaxAttempts
    /\ loc' = [loc EXCEPT ![t] =
                 [NoLoc EXCEPT !.mode = "resume", !.file = f,
                               !.fileLen = db[KeyOf(db, f)].fileSize,
                               !.info = getCachedLinks(db, f)]]
    /\ hist' = [hist EXCEPT ![t] = [NoHist EXCEPT !.mode = "resume",
                                                  !.info = getCachedLinks(db, f)]]
    /\ pc' = [pc EXCEPT ![t] = "updateLastAttempted"]
    /\ UNCHANGED <<internalUser, db, s3>>

\* putExistingMultipartFile, called by the single writer of the tuple.
GetCachedLinks(t, f) == SingleWriter(f) /\ LoadCached(t, f)

\* A MultipartInfo whose partUploadStatus holds only the first m entries.
ShortStatus(info, m) ==
    [info EXCEPT !.partUploadStatus = Some(SubSeq(@[1], 1, m))]

\* putExistingMultipartFile when the list of part states the store returns is
\* shorter than the list of part URLs (m entries).
GetCachedLinksShort(t, f, m) ==
    /\ SingleWriter(f)
    /\ pc[t] = "idle"
    /\ HasEntry(db, f)
    /\ db[KeyOf(db, f)].lastAttempted < MaxAttempts
    /\ m <= db[KeyOf(db, f)].partsLength
    /\ loc' = [loc EXCEPT ![t] =
                 [NoLoc EXCEPT !.mode = "resume", !.file = f,
                               !.fileLen = db[KeyOf(db, f)].fileSize,
                               !.info = ShortStatus(getCachedLinks(db, f), m)]]
    /\ hist' = [hist EXCEPT ![t] =
                  [NoHist EXCEPT !.mode = "resume",
                                 !.info = ShortStatus(getCachedLinks(db, f), m)]]
    /\ pc' = [pc EXCEPT ![t] = "updateLastAttempted"]
    /\ UNCHANGED <<internalUser, db, s3>>

\* putExistingMultipartFile: _db.updateLastAttempted and the two status tests.
UpdateLastAttempted(t) ==
    LET info == loc[t].info
        l == EnterUploadParts(loc[t], internalUser)
    IN  /\ pc[t] = "updateLastAttempted"
        /\ db' = updateLastAttempted(db, loc[t].file)
        /\ IF ResumeUploadsParts(info)
           THEN /\ loc' = [loc EXCEPT ![t] = l]
                /\ pc' = [pc EXCEPT ![t] = LoopPc(l)]
                /\ UNCHANGED hist
           ELSE IF ResumeCompletes(info)
           THEN /\ loc' = [loc EXCEPT ![t].etags = ResumeETags(info)]
                /\ pc' = [pc EXCEPT ![t] = "post"]
                /\ UNCHANGED hist
           ELSE EndCall(t, "ok", Some(info.objectKey))
        /\ UNCHANGED <<internalUser, s3>>

\* ------------------------------------------------------------ _uploadParts

SendPut_marksUploaded(t) ==
    LET l == loc[t]
    IN  /\ pc[t] = "put"
        /\ hist' = [hist EXCEPT
                      ![t].puts = Append(@, l.i),
                      ![t].lastPut =
                          [part |-> l.i,
                           range |-> PartRange(l.i, l.info.partsLength, l.fileLen,
                                               l.partSize),
                           contentLength |-> PartContentLength(l.i, l.info.partsLength,
                                                               l.fileLen, l.partSize),
                           partsLength |-> l.info.partsLength,
                           fileLen |-> l.fileLen, partSize |-> l.partSize]]
        /\ db' = updatePartStatus(db, l.info.objectKey, l.i, "e1")
        /\ pc' = [pc EXCEPT ![t] = "awaitPut"]
        /\ UNCHANGED <<internalUser, s3, loc>>

\* _s3Dio.put(partURL, data: openRead(...), content-length: fileSize) is sent.
SendPut(t) ==
    LET l == loc[t]
    IN  /\ pc[t] = "put"
        /\ hist' = [hist EXCEPT
                      ![t].puts = Append(@, l.i),
                      ![t].lastPut =
                          [part |-> l.i,
                           range |-> PartRange(l.i, l.info.partsLength, l.fileLen,
                                               l.partSize),
                           contentLength |-> PartContentLength(l.i, l.info.partsLength,
                                                               l.fileLen, l.partSize),
                           partsLength |-> l.info.partsLength,
                           fileLen |-> l.fileLen, partSize |-> l.partSize]]
        /\ pc' = [pc EXCEPT ![t] = "awaitPut"]
        /\ UNCHANGED <<internalUser, db, s3, loc>>

\* The PUT returns a response whose etag header is eTag; a missing or empty one
\* throws ETAG_MISSING, any other is put into etags.  The server side remembers
\* the identifier it returned, or that it returned none.
RecvPut(t, eTag) ==
    LET l == loc[t]
        key == l.info.objectKey
        usable == eTag \in {Some(e) : e \in ETagValues}
    IN  /\ pc[t] = "awaitPut"
        /\ s3' = IF usable
                 THEN [s3 EXCEPT ![key].parts = [@ EXCEPT ![l.i + 1] = eTag],
                                 ![key].missing = IF @ = l.i THEN -1 ELSE @]
                 ELSE [s3 EXCEPT ![key].missing = l.i]
        /\ IF ETagMissing(eTag)
           THEN EndCall(t, "ETAG_MISSING", None)
           ELSE /\ loc' = [loc EXCEPT ![t].eTag = eTag,
                                      ![t].etags = MapPut(l.etags, l.i, eTag[1])]
                /\ pc' = [pc EXCEPT ![t] = "updatePartStatus"]
                /\ UNCHANGED hist
        /\ UNCHANGED <<internalUser, db>>

\* A failed PUT swallowed, the loop going on to the next part.
PutFails_continues(t) ==
    LET l == [loc[t] EXCEPT !.i = @ + 1, !.eTag = None]
    IN  /\ pc[t] = "awaitPut"
        /\ loc' = [loc EXCEPT ![t] = l]
        /\ pc' = [pc EXCEPT ![t] = LoopPc(l)]
        /\ UNCHANGED <<internalUser, db, s3, hist>>

\* A failed PUT sent again.
PutFails_retries(t) ==
    /\ pc[t] = "awaitPut"
    /\ pc' = [pc EXCEPT ![t] = "put"]
    /\ UNCHANGED <<internalUser, db, s3, loc, hist>>

\* The PUT throws (network failure, timeout).
PutFails(t) ==
    /\ pc[t] = "awaitPut"
    /\ EndCall(t, "TransportFailure", None)
    /\ UNCHANGED <<internalUser, db, s3>>

\* The store write of one part applied to every tracked session.
UpdatePartStatus_sharedKey(t) ==
    LET l == [loc[t] EXCEPT !.i = @ + 1, !.eTag = None]
    IN  /\ pc[t] = "updatePartStatus"
        /\ db' = [k \in DOMAIN db |->
                     updatePartStatus(db, k, loc[t].i, loc[t].eTag[1])[k]]
        /\ loc' = [loc EXCEPT ![t] = l]
        /\ pc' = [pc EXCEPT ![t] = LoopPc(l)]
        /\ UNCHANGED <<internalUser, s3, hist>>

\* The loop going on to the next part without the store write.
UpdatePartStatus_notPersisted(t) ==
    LET l == [loc[t] EXCEPT !.i = @ + 1, !.eTag = None]
    IN  /\ pc[t] = "updatePartStatus"
        /\ loc' = [loc EXCEPT ![t] = l]
        /\ pc' = [pc EXCEPT ![t] = LoopPc(l)]
        /\ UNCHANGED <<internalUser, db, s3, hist>>

\* _db.updatePartStatus(objectKey, i, eTag); i++; and the loop test.
UpdatePartStatus(t) ==
    LET l == [loc[t] EXCEPT !.i = @ + 1, !.eTag = None]
    IN  /\ pc[t] = "updatePartStatus"
        /\ db' = updatePartStatus(db, loc[t].info.objectKey, loc[t].i, loc[t].eTag[1])
        /\ loc' = [loc EXCEPT ![t] = l]
        /\ pc' = [pc EXCEPT ![t] = LoopPc(l)]
        /\ UNCHANGED <<internalUser, s3, hist>>

\* _db.updateTrackUploadStatus(objectKey, MultipartStatus.uploaded); return etags.
\* Both callers go on to _completeMultipartUpload: the resume path tests the
\* status it loaded, which was pending.
UpdateTrackUploaded(t) ==
    /\ pc[t] = "updateTrackUploadStatus"
    /\ db' = updateTrackUploadStatus(db, loc[t].info.objectKey, "uploaded")
    /\ IF loc[t].mode = "fresh" \/ ResumeCompletes(loc[t].info)
       THEN /\ pc' = [pc EXCEPT ![t] = "post"]
            /\ UNCHANGED <<loc, hist>>
       ELSE EndCall(t, "ok", Some(loc[t].info.objectKey))
    /\ UNCHANGED <<internalUser, s3>>

\* ------------------------------------------------ _completeMultipartUpload

SendPost_marksCompleted(t) ==
    /\ pc[t] = "post"
    /\ hist' = [hist EXCEPT ![t].posts = @ + 1,
                            ![t].body = CompletionBody(loc[t].etags)]
    /\ db' = updateTrackUploadStatus(db, loc[t].info.objectKey, "completed")
    /\ pc' = [pc EXCEPT ![t] = "awaitPost"]
    /\ UNCHANGED <<internalUser, s3, loc>>

\* The body is built from partEtags and _s3Dio.post(completeURL, body) is sent.
SendPost(t) ==
    /\ pc[t] = "post"
    /\ hist' = [hist EXCEPT ![t].posts = @ + 1,
                            ![t].body = CompletionBody(loc[t].etags)]
    /\ pc' = [pc EXCEPT ![t] = "awaitPost"]
    /\ UNCHANGED <<internalUser, db, s3, loc>>

\* The finalize call returns success.
RecvPost(t) ==
    /\ pc[t] = "awaitPost"
    /\ s3' = [s3 EXCEPT ![loc[t].info.objectKey].completed = TRUE]
    /\ pc' = [pc EXCEPT ![t] = "updateTrackUploadStatusCompleted"]
    /\ UNCHANGED <<internalUser, db, loc, hist>>

\* The finalize call throws; the catch block logs and rethrows.
PostFails(t) ==
    /\ pc[t] = "awaitPost"
    /\ EndCall(t, "CompletionRejected", None)
    /\ UNCHANGED <<internalUser, db, s3>>

\* _db.updateTrackUploadStatus(objectKey, MultipartStatus.completed); both
\* entry points then return the objectKey.
UpdateTrackCompleted(t) ==
    /\ pc[t] = "updateTrackUploadStatusCompleted"
    /\ db' = updateTrackUploadStatus(db, loc[t].info.objectKey, "completed")
    /\ EndCall(t, "ok", Some(loc[t].info.objectKey))
    /\ UNCHANGED <<internalUser, s3>>

\* ------------------------------------------------------------ environment

\* The process dies between two awaited calls: the task and its locals are gone,
\* the store and the server keep what they have.
Crash(t) ==
    /\ pc[t] # "idle"
    /\ pc' = [pc EXCEPT ![t] = "idle"]
    /\ loc' = [loc EXCEPT ![t] = NoLoc]
    /\ hist' = [hist EXCEPT ![t] = [NoHist EXCEPT !.result = "crashed"]]
    /\ UNCHANGED <<internalUser, db, s3>>

\* The capability tier of the user changes.
ToggleInternalUser ==
    /\ internalUser' = ~internalUser
    /\ UNCHANGED <<db, s3, pc, loc, hist>>

\* ----------------------------------------------------------- specification

\* One upload task, one file: the orchestrator is the single writer of a session.
SeqTasks == {1}
SeqFiles == {1}

Next ==
    \/ \E t \in SeqTasks, f \in SeqFiles, n \in FileSizes : CalculatePartCount(t, f, n)
    \/ \E t \in SeqTasks, k \in Keys : GetMultipartUploadURLs(t, k)
    \/ \E t \in SeqTasks : GetMultipartUploadURLsFails(t)
    \/ \E t \in SeqTasks : CreateTableEntry(t)
    \/ \E t \in SeqTasks : PutMultipartFile(t)
    \/ \E t \in SeqTasks, f \in SeqFiles : GetCachedLinks(t, f)
    \/ \E t \in SeqTasks : UpdateLastAttempted(t)
    \/ \E t \in SeqTasks : SendPut(t)
    \/ \E t \in SeqTasks, e \in ETagHeaders : RecvPut(t, e)
    \/ \E t \in SeqTasks : PutFails(t)
    \/ \E t \in SeqTasks : UpdatePartStatus(t)
    \/ \E t \in SeqTasks : UpdateTrackUploaded(t)
    \/ \E t \in SeqTasks : SendPost(t)
    \/ \E t \in SeqTasks : RecvPost(t)
    \/ \E t \in SeqTasks : PostFails(t)
    \/ \E t \in SeqTasks : UpdateTrackCompleted(t)
    \/ \E t \in SeqTasks : Crash(t)
    \/ ToggleInternalUser

Spec == Init /\ [][Next]_vars

\* Two callers work on the same tuple with no coordination between them: both can
\* plan a fresh upload before either has created the session, and either can
\* resume it.  The file has two parts and a PUT response carries one identifier
\* or none.
RaceFiles == {1}
RaceFileSize == multipartPartSizeInternal + 1
RaceETagHeaders == {None, Some("e1")}

NextRace ==
    \/ \E t \in Tasks, f \in RaceFiles : PlanFresh(t, f, RaceFileSize)
    \/ \E t \in Tasks, k \in Keys : GetMultipartUploadURLs(t, k)
    \/ \E t \in Tasks : CreateTableEntry(t)
    \/ \E t \in Tasks : PutMultipartFile(t)
    \/ \E t \in Tasks, f \in RaceFiles : LoadCached(t, f)
    \/ \E t \in Tasks : UpdateLastAttempted(t)
    \/ \E t \in Tasks : SendPut(t)
    \/ \E t \in Tasks, e \in RaceETagHeaders : RecvPut(t, e)
    \/ \E t \in Tasks : UpdatePartStatus(t)
    \/ \E t \in Tasks : UpdateTrackUploaded(t)
    \/ \E t \in Tasks : SendPost(t)
    \/ \E t \in Tasks : RecvPost(t)
    \/ \E t \in Tasks : PostFails(t)
    \/ \E t \in Tasks : UpdateTrackCompleted(t)

InitRace == Init /\ internalUser

SpecRace == InitRace /\ [][NextRace]_vars

\* Two upload tasks, each the single writer of the session of its own file, take
\* their steps in any order.
NextTwo ==
    \/ \E t \in Tasks : CalculatePartCount(t, t, RaceFileSize)
    \/ \E t \in Tasks, k \in Keys : GetMultipartUploadURLs(t, k)
    \/ \E t \in Tasks : CreateTableEntry(t)
    \/ \E t \in Tasks : PutMultipartFile(t)
    \/ \E t \in Tasks : GetCachedLinks(t, t)
    \/ \E t \in Tasks : UpdateLastAttempted(t)
    \/ \E t \in Tasks : SendPut(t)
    \/ \E t \in Tasks, e \in ETagHeaders : RecvPut(t, e)
    \/ \E t \in Tasks : PutFails(t)
    \/ \E t \in Tasks : UpdatePartStatus(t)
    \/ \E t \in Tasks : UpdateTrackUploaded(t)
    \/ \E t \in Tasks : SendPost(t)
    \/ \E t \in Tasks : RecvPost(t)
    \/ \E t \in Tasks : PostFails(t)
    \/ \E t \in Tasks : UpdateTrackCompleted(t)

SpecTwo == InitRace /\ [][NextTwo]_vars

\* One upload task on one file, where the store may return fewer part states than
\* the session has part URLs.  A PUT response carries one identifier or none.
NextShort ==
    \/ \E t \in SeqTasks, f \in SeqFiles, n \in FileSizes : CalculatePartCount(t, f, n)
    \/ \E t \in SeqTasks, k \in Keys : GetMultipartUploadURLs(t, k)
    \/ \E t \in SeqTasks : CreateTableEntry(t)
    \/ \E t \in SeqTasks : PutMultipartFile(t)
    \/ \E t \in SeqTasks, f \in SeqFiles, m \in 0..MaxFileSize :
           GetCachedLinksShort(t, f, m)
    \/ \E t \in SeqTasks : UpdateLastAttempted(t)
    \/ \E t \in SeqTasks : SendPut(t)
    \/ \E t \in SeqTasks, e \in RaceETagHeaders : RecvPut(t, e)
    \/ \E t \in SeqTasks : PutFails(t)
    \/ \E t \in SeqTasks : UpdatePartStatus(t)
    \/ \E t \in SeqTasks : UpdateTrackUploaded(t)
    \/ \E t \in SeqTasks : SendPost(t)
    \/ \E t \in SeqTasks : RecvPost(t)
    \/ \E t \in SeqTasks : PostFails(t)
    \/ \E t \in SeqTasks : UpdateTrackCompleted(t)
    \/ \E t \in SeqTasks : Crash(t)

SpecShort == InitRace /\ [][NextShort]_vars

\* One upload task whose caller resumes the session after every failure and every
\* crash.  A PUT, the finalize call or the process can fail while the session
\* still has a resume attempt left; an awaited call that can return does return.
LiveFileSizes == {multipartPartSizeInternal + 1, 2 * multipartPartSizeInternal + 1}

MayFail(t) ==
    /\ loc[t].info.objectKey \in DOMAIN db
    /\ db[loc[t].info.objectKey].lastAttempted < MaxAttempts

LiveFailure(t) ==
    MayFail(t) /\ (\/ PutFails(t)
                   \/ RecvPut(t, None)
                   \/ PostFails(t)
                   \/ Crash(t))

LiveProgress(t) ==
    \/ \E f \in SeqFiles, n \in LiveFileSizes : CalculatePartCount(t, f, n)
    \/ \E k \in Keys : GetMultipartUploadURLs(t, k)
    \/ CreateTableEntry(t)
    \/ PutMultipartFile(t)
    \/ \E f \in SeqFiles : GetCachedLinks(t, f)
    \/ UpdateLastAttempted(t)
    \/ SendPut(t)
    \/ \E e \in ETagValues : RecvPut(t, Some(e))
    \/ UpdatePartStatus(t)
    \/ UpdateTrackUploaded(t)
    \/ SendPost(t)
    \/ RecvPost(t)
    \/ UpdateTrackCompleted(t)

NextLive ==
    \/ \E t \in SeqTasks : LiveProgress(t)
    \/ \E t \in SeqTasks : LiveFailure(t)

SpecLive ==
    InitRace /\ [][NextLive]_vars /\ WF_vars(\E t \in SeqTasks : LiveProgress(t))

\* Sessions are created with any file key and file nonce under any collection
\* key, and their key material is read back under any collection key.
NextKeys ==
    \/ \E t \in Tasks, f \in SeqFiles, n \in LiveFileSizes : CalculatePartCount(t, f, n)
    \/ \E t \in Tasks, k \in Keys : GetMultipartUploadURLs(t, k)
    \/ \E t \in Tasks, fk \in FileKeys, fn \in FileNonces, ck \in CollectionKeys,
          bn \in BoxNonces : CreateTableEntryWith(t, fk, fn, ck, bn)
    \/ \E t \in Tasks, f \in SeqFiles, ck \in CollectionKeys :
           GetEncryptionResult(t, f, ck)

SpecKeys == InitRace /\ [][NextKeys]_vars

\* ----------------------------------------------------------------- claims

\* The row of the session a call works on, and whether it exists.
Tracked(t) == hist[t].info.objectKey \in DOMAIN db
RowOf(t) == db[hist[t].info.objectKey]

\* The number of leading TRUE entries of a list of booleans.
UploadedPrefix(st) ==
    CHOOSE k \in 0..Len(st) :
        /\ \A j \in 1..k : st[j]
        /\ k = Len(st) \/ ~st[k + 1]

\* The part indices from, from + 1, ... below upTo, in order.
IndicesFrom(from, upTo) ==
    [j \in 1..(IF upTo > from THEN upTo - from ELSE 0) |-> from + j - 1]

\* C1: every computed part count is the ceiling of fileSize / part size of the
\* tier when the user is internal (the least n with n * P >= S), and 1 otherwise.
C1_PartCountIsCeiling ==
    \A t \in Tasks :
        hist[t].plan # None =>
            LET p == hist[t].plan[1]
            IN  IF p.internal
                THEN /\ p.partCount * multipartPartSizeInternal >= p.fileSize
                     /\ (p.partCount - 1) * multipartPartSizeInternal < p.fileSize
                ELSE p.partCount = 1

C1_Witness ==
    \E t \in Tasks :
        /\ hist[t].plan # None
        /\ hist[t].plan[1].internal
        /\ hist[t].plan[1].fileSize % multipartPartSizeInternal # 0
        /\ hist[t].plan[1].partCount = 3

\* C2: a resume of a pending session whose first k parts are recorded issues its
\* part PUTs for k, k + 1, ... in that order, none below k, and has issued them
\* for all of k..n-1 once the part loop is over.
C2_ResumeUploadsSuffix ==
    \A t \in Tasks :
        (hist[t].mode = "resume" /\ hist[t].info.status = "pending") =>
            LET k == UploadedPrefix(hist[t].info.partUploadStatus[1])
                n == hist[t].info.partsLength
            IN  /\ \E m \in k..n : hist[t].puts = IndicesFrom(k, m)
                /\ pc[t] \in {"updateTrackUploadStatus", "post", "awaitPost",
                              "updateTrackUploadStatusCompleted"}
                       => hist[t].puts = IndicesFrom(k, n)
                /\ hist[t].result = "ok" => hist[t].puts = IndicesFrom(k, n)

C2_Witness ==
    \E t \in Tasks :
        /\ hist[t].mode = "resume"
        /\ hist[t].info.status = "pending"
        /\ hist[t].info.partUploadStatus = Some(<<TRUE, TRUE, FALSE>>)
        /\ hist[t].puts = <<2>>
        /\ pc[t] = "post"

\* C3: while the latest PUT response for part i of a session carried no usable
\* identifier, part i is not recorded as uploaded, has no stored ETag, the call
\* that received the response has ended with ETAG_MISSING, part i is the first
\* part not recorded, and the first PUT a later resume sends is that of part i.
C3_MissingIdentifier ==
    \A t \in Tasks :
        (Tracked(t) /\ s3[hist[t].info.objectKey].missing # -1) =>
            LET i == s3[hist[t].info.objectKey].missing
            IN  /\ ~RowOf(t).partUploadStatus[i + 1]
                /\ i \notin DOMAIN RowOf(t).partETags
                /\ hist[t].lastPut.part = i =>
                       \/ hist[t].result = "ETAG_MISSING" /\ pc[t] = "idle"
                       \/ pc[t] = "awaitPut"
                       \/ hist[t].result = "TransportFailure" /\ pc[t] = "idle"
                /\ UploadedPrefix(RowOf(t).partUploadStatus) = i
                /\ (hist[t].mode = "resume" /\ pc[t] # "idle" /\ hist[t].puts # <<>>)
                       => hist[t].puts = <<i>>

C3_Witness ==
    \E t \in Tasks :
        /\ Tracked(t)
        /\ s3[hist[t].info.objectKey].missing = 1
        /\ hist[t].mode = "resume"
        /\ hist[t].puts = <<1>>
        /\ pc[t] = "awaitPut"

C5_StatusMonotonic ==
    [][\A k \in DOMAIN db :
           /\ k \in DOMAIN db'
           /\ StatusRank(db'[k].status) >= StatusRank(db[k].status)
           /\ StatusRank(db'[k].status) <= StatusRank(db[k].status) + 1
           /\ db[k].status = "completed" => db'[k].status = "completed"]_vars

C5_Witness ==
    \E t \in Tasks :
        /\ hist[t].mode = "resume"
        /\ hist[t].info.status = "completed"
        /\ hist[t].result = "ok"
        /\ RowOf(t).status = "completed"

\* C6: a resume of a session loaded as completed issues no part PUT and no
\* finalize call, leaves status, partUploadStatus and partETags as loaded, and
\* returns the stored objectKey.
C6_CompletedResumeIsNoOp ==
    \A t \in Tasks :
        (hist[t].mode = "resume" /\ hist[t].info.status = "completed") =>
            /\ hist[t].puts = <<>>
            /\ hist[t].posts = 0
            /\ pc[t] \in {"updateLastAttempted", "idle"}
            /\ RowOf(t).status = "completed"
            /\ RowOf(t).partUploadStatus = hist[t].info.partUploadStatus[1]
            /\ EntriesBelow(RowOf(t).partETags, RowOf(t).partsLength)
                   = hist[t].info.partETags[1]
            /\ pc[t] = "idle" =>
                   /\ hist[t].result = "ok"
                   /\ hist[t].ret = Some(KeyOf(db, RowOf(t).file))

C6_Witness ==
    \E t \in Tasks :
        /\ hist[t].mode = "resume"
        /\ hist[t].info.status = "completed"
        /\ pc[t] = "idle"
        /\ hist[t].ret # None
        /\ RowOf(t).lastAttempted = 2

\* The finalize body that lists every part 0..n-1 of a row once, numbered 1..n,
\* each with the ETag the store holds for it.
FullBody(row) ==
    [j \in 1..row.partsLength |-> [PartNumber |-> j, ETag |-> row.partETags[j - 1]]]

\* C7: when the file size is a positive exact multiple of the part size, the
\* length declared for the last part is the part size, not zero.
C7_LastPartFullLength ==
    \A t \in Tasks :
        LET p == hist[t].lastPut
        IN  (/\ p.part # -1
             /\ p.fileLen > 0
             /\ p.fileLen = p.partsLength * p.partSize
             /\ p.part = p.partsLength - 1)
                => p.contentLength = p.partSize

\* C8: every finalize request sent lists each part index 0..n-1 exactly once,
\* numbered 1..n in that order, with the ETag stored for it, whether the ETag was
\* persisted by an earlier call or obtained by this one.
C8_FinalizeListsEveryPart ==
    \A t \in Tasks :
        (hist[t].posts > 0 /\ Tracked(t)) =>
            /\ DOMAIN RowOf(t).partETags = 0..(RowOf(t).partsLength - 1)
            /\ hist[t].body = FullBody(RowOf(t))

C8_Witness ==
    \E t \in Tasks :
        /\ hist[t].mode = "resume"
        /\ hist[t].info.partUploadStatus = Some(<<TRUE, TRUE, FALSE>>)
        /\ hist[t].puts = <<2>>
        /\ hist[t].posts = 1
        /\ hist[t].body = <<[PartNumber |-> 1, ETag |-> "e1"],
                            [PartNumber |-> 2, ETag |-> "e2"],
                            [PartNumber |-> 3, ETag |-> "e1"]>>

\* C9: a call whose finalize request failed has ended with that error and left
\* the status at uploaded; a resume of a session loaded as uploaded issues no
\* part PUT and finalizes with the stored ETags of all parts.
C9_FinalizeFailureKeepsUploaded ==
    \A t \in Tasks :
        /\ hist[t].result = "CompletionRejected" =>
               /\ pc[t] = "idle"
               /\ RowOf(t).status = "uploaded"
        /\ (hist[t].mode = "resume" /\ hist[t].info.status = "uploaded") =>
               /\ hist[t].puts = <<>>
               /\ pc[t] \in {"updateLastAttempted", "post", "awaitPost",
                             "updateTrackUploadStatusCompleted", "idle"}
               /\ hist[t].posts > 0 => hist[t].body = FullBody(RowOf(t))
               /\ pc[t] \in {"awaitPost", "updateTrackUploadStatusCompleted"}
                      => hist[t].posts = 1

C9_Witness ==
    \E t \in Tasks :
        /\ hist[t].mode = "resume"
        /\ hist[t].info.status = "uploaded"
        /\ hist[t].result = "CompletionRejected"
        /\ hist[t].posts = 1
        /\ Len(hist[t].body) = 3

\* C10: a session is stored as completed only after a finalize call for it has
\* returned success, and part i is stored as uploaded only with the non-empty
\* identifier a PUT of part i has returned.
C10_PersistAfterConfirm ==
    \A k \in DOMAIN db :
        /\ db[k].status = "completed" => s3[k].completed
        /\ \A j \in 1..db[k].partsLength :
               db[k].partUploadStatus[j] =>
                   /\ s3[k].parts[j] \in {Some(e) : e \in ETagValues}
                   /\ (j - 1) \in DOMAIN db[k].partETags
                   /\ Some(db[k].partETags[j - 1]) = s3[k].parts[j]

C10_Witness ==
    \E k \in DOMAIN db :
        /\ db[k].status = "completed"
        /\ db[k].partsLength = 2
        /\ db[k].lastAttempted = 1

\* C11: every computed part count is at least 1, for every file size (0
\* included) and both tiers.
C11_PartCountAtLeastOne ==
    \A t \in Tasks :
        hist[t].plan # None => hist[t].plan[1].partCount >= 1

\* C12: the content length declared on the PUT of a part is the number of bytes
\* streamed for it: the range starts at i * partSize and spans partSize bytes, or
\* fileSize - i * partSize bytes for the last part.
C12_ContentLengthIsStreamed ==
    \A t \in Tasks :
        LET p == hist[t].lastPut
        IN  p.part # -1 =>
                /\ p.range[1] = p.part * p.partSize
                /\ p.contentLength = p.range[2] - p.range[1]
                /\ p.contentLength =
                       IF p.part = p.partsLength - 1
                       THEN p.fileLen - p.part * p.partSize
                       ELSE p.partSize

\* C13: a part stored as uploaded has a non-empty stored ETag.
C13_UploadedHasETag ==
    \A k \in DOMAIN db :
        \A j \in 1..Len(db[k].partUploadStatus) :
            db[k].partUploadStatus[j] =>
                /\ (j - 1) \in DOMAIN db[k].partETags
                /\ db[k].partETags[j - 1] # ""

C13_Witness ==
    \E k \in DOMAIN db :
        /\ db[k].status = "pending"
        /\ db[k].partUploadStatus = <<TRUE, TRUE, FALSE>>
        /\ s3[k].missing = 2

UploadPcs ==
    {"putMultipartFile", "put", "awaitPut", "updatePartStatus",
     "updateTrackUploadStatus", "post", "awaitPost", "updateTrackUploadStatusCompleted"}

\* C15: a call that is past createTableEntry, or has issued a part PUT, works on
\* an objectKey the server handed out and the store holds a session for, with as
\* many parts as URLs were obtained; a resume works on that stored objectKey.
C15_SessionBeforeUpload ==
    \A t \in Tasks :
        (hist[t].puts # <<>> \/ pc[t] \in UploadPcs) =>
            /\ Tracked(t)
            /\ s3[hist[t].info.objectKey].issued
            /\ RowOf(t).partsLength = hist[t].info.partsLength
            /\ Len(s3[hist[t].info.objectKey].parts) = RowOf(t).partsLength

C15_Witness ==
    \E t \in Tasks :
        /\ hist[t].mode = "resume"
        /\ hist[t].info.partUploadStatus = Some(<<FALSE, FALSE>>)
        /\ RowOf(t).lastAttempted = 1
        /\ hist[t].puts = <<0>>
        /\ pc[t] = "awaitPut"
        /\ s3[hist[t].info.objectKey].parts = <<None, None>>
        /\ Cardinality({k \in Keys : s3[k].issued}) = 1

\* C16: a call ended by the failure of the PUT of part k has the error as its
\* result, and has left the status pending, part k unrecorded and without stored
\* ETag, and parts 0..k-1 recorded with the ETags they were stored with (those the
\* call loaded and those the server returned to it).
C16_PutFailureKeepsProgress ==
    \A t \in Tasks :
        hist[t].result = "TransportFailure" =>
            LET k == hist[t].lastPut.part
                row == RowOf(t)
                loaded == OrElse(hist[t].info.partETags, <<>>)
            IN  /\ pc[t] = "idle"
                /\ k = hist[t].puts[Len(hist[t].puts)]
                /\ row.status = "pending"
                /\ ~row.partUploadStatus[k + 1]
                /\ k \notin DOMAIN row.partETags
                /\ \A j \in 0..(k - 1) :
                       /\ row.partUploadStatus[j + 1]
                       /\ j \in DOMAIN row.partETags
                       /\ Some(row.partETags[j]) = s3[hist[t].info.objectKey].parts[j + 1]
                /\ \A x \in 1..Len(loaded) : row.partETags[loaded[x][1]] = loaded[x][2]

C16_Witness ==
    \E t \in Tasks :
        /\ hist[t].result = "TransportFailure"
        /\ hist[t].mode = "resume"
        /\ hist[t].info.partUploadStatus = Some(<<TRUE, FALSE, FALSE>>)
        /\ hist[t].puts = <<1, 2>>
        /\ RowOf(t).partUploadStatus = <<TRUE, TRUE, FALSE>>

\* A step in which task t takes no part leaves the session of t's file, and what
\* the server holds for it, as they are; a session appears only by a step of the
\* task of its file.
SessionsIsolatedStep ==
    /\ \A t \in Tasks : \A k \in DOMAIN db :
           (db[k].file = t /\ pc'[t] = pc[t]) =>
               /\ k \in DOMAIN db'
               /\ db'[k] = db[k]
               /\ s3'[k] = s3[k]
    /\ \A k \in DOMAIN db' :
           k \notin DOMAIN db => pc'[db'[k].file] # pc[db'[k].file]

\* The session of every task is what the task alone has made of it: the recorded
\* parts are those the task got an identifier for and persisted, with that
\* identifier, and the status is the one the outcome of the task's call gives.
SessionsAsAlone ==
    \A t \in Tasks :
        (Tracked(t) /\ RowOf(t).file = t) =>
            LET row == RowOf(t)
                srv == s3[hist[t].info.objectKey]
                r == UploadedPrefix(row.partUploadStatus)
            IN  /\ \A j \in 1..row.partsLength : row.partUploadStatus[j] => j <= r
                /\ DOMAIN row.partETags = 0..(r - 1)
                /\ \A j \in 0..(r - 1) : Some(row.partETags[j]) = srv.parts[j + 1]
                /\ hist[t].result = "ok" =>
                       /\ row.status = "completed"
                       /\ r = row.partsLength
                       /\ srv.completed
                /\ hist[t].result \in {"ETAG_MISSING", "TransportFailure"} =>
                       /\ row.status = "pending"
                       /\ r = hist[t].lastPut.part
                /\ hist[t].result = "CompletionRejected" =>
                       /\ row.status = "uploaded"
                       /\ r = row.partsLength

\* C17: when the tasks of two sessions interleave, the store writes of a task
\* change only its own session, and each session is in the state its own task
\* alone has brought it to.
C17_SessionsIndependent == []SessionsAsAlone /\ [][SessionsIsolatedStep]_vars

C17_Witness ==
    /\ \A t \in Tasks : hist[t].result = "ok" /\ Tracked(t) /\ RowOf(t).file = t
    /\ RowOf(1).partETags # RowOf(2).partETags
    /\ RowOf(1).lastAttempted = 0
    /\ RowOf(2).lastAttempted = 1

\* C18: in every session the parts recorded as uploaded are a contiguous prefix
\* of the part indices: no recorded part has an unrecorded part below it, and
\* the identifiers held are those of exactly that prefix.
C18_RecordedPartsArePrefix ==
    \A k \in DOMAIN db :
        LET row == db[k]
            r == UploadedPrefix(row.partUploadStatus)
        IN  /\ \A j \in 1..row.partsLength :
                   row.partUploadStatus[j] =>
                       \A below \in 1..j : row.partUploadStatus[below]
            /\ DOMAIN row.partETags = 0..(r - 1)

C18_Witness ==
    \E t \in Tasks :
        /\ pc[t] = "idle"
        /\ hist[t].result = "ETAG_MISSING"
        /\ hist[t].lastPut.part = 1
        /\ RowOf(t).partUploadStatus = <<TRUE, FALSE, FALSE>>

\* C19: the PUTs of a call go up the part indices one by one, and while the PUT
\* of part i is being sent or is in flight every part below i is recorded in
\* the store with its identifier; a session has at most one PUT in flight.
C19_OnePartAtATime ==
    /\ \A t \in Tasks :
           LET puts == hist[t].puts
           IN  /\ \A x \in 1..(Len(puts) - 1) : puts[x + 1] = puts[x] + 1
               /\ pc[t] \in {"awaitPut", "updatePartStatus"} =>
                      /\ puts # <<>>
                      /\ puts[Len(puts)] = loc[t].i
                      /\ \A j \in 0..(loc[t].i - 1) :
                             /\ RowOf(t).partUploadStatus[j + 1]
                             /\ j \in DOMAIN RowOf(t).partETags
               /\ pc[t] = "put" =>
                      \A j \in 0..(loc[t].i - 1) :
                          /\ RowOf(t).partUploadStatus[j + 1]
                          /\ j \in DOMAIN RowOf(t).partETags
    /\ \A k \in Keys :
           Cardinality({t \in Tasks : pc[t] = "awaitPut"
                                      /\ loc[t].info.objectKey = k}) <= 1

C19_Witness ==
    \E t \in Tasks :
        /\ pc[t] = "awaitPut"
        /\ loc[t].i = 2
        /\ hist[t].puts = <<0, 1, 2>>
        /\ RowOf(t).partUploadStatus = <<TRUE, TRUE, FALSE>>

\* C20: one call sends at most one PUT for a part index and at most one
\* finalize POST, and a call that has failed has stopped: after a failed PUT
\* no POST was sent and the failed part is the last one sent, after a failed
\* POST that POST was the only one.
C20_NoHiddenRetries ==
    \A t \in Tasks :
        LET puts == hist[t].puts
        IN  /\ \A x, y \in 1..Len(puts) : x # y => puts[x] # puts[y]
            /\ hist[t].posts <= 1
            /\ hist[t].result \in {"TransportFailure", "ETAG_MISSING"} =>
                   /\ pc[t] = "idle"
                   /\ hist[t].posts = 0
                   /\ puts[Len(puts)] = hist[t].lastPut.part
            /\ hist[t].result = "CompletionRejected" =>
                   /\ pc[t] = "idle"
                   /\ hist[t].posts = 1

C20_Witness ==
    \E t \in Tasks :
        /\ hist[t].result = "CompletionRejected"
        /\ hist[t].mode = "fresh"
        /\ hist[t].puts = <<0, 1, 2>>
        /\ hist[t].posts = 1
        /\ RowOf(t).status = "uploaded"

\* C21: a session stored as uploaded or completed has every part index 0..n-1
\* recorded as uploaded with a non-empty ETag, also when a call was handed no
\* list of part states or one shorter than the list of part URLs.
C21_UploadedMeansAllParts ==
    \A k \in DOMAIN db :
        db[k].status \in {"uploaded", "completed"} =>
            \A j \in 0..(db[k].partsLength - 1) :
                /\ db[k].partUploadStatus[j + 1]
                /\ j \in DOMAIN db[k].partETags
                /\ db[k].partETags[j] # ""

C21_Witness ==
    \E t \in Tasks :
        /\ hist[t].mode = "resume"
        /\ hist[t].info.partUploadStatus = Some(<<TRUE>>)
        /\ hist[t].info.partsLength = 3
        /\ hist[t].puts = <<1, 2>>
        /\ RowOf(t).status = "uploaded"

\* C22: when the caller resumes after every failure and crash, and from some
\* point on no PUT, no finalize call and no process fails, every session that
\* exists is eventually stored as completed and stays so.
C22_EventuallyCompleted ==
    (<>[][~(\E t \in SeqTasks : LiveFailure(t))]_vars) =>
        \A k \in Keys :
            (k \in DOMAIN db) ~> [](k \in DOMAIN db /\ db[k].status = "completed")

C22_Witness ==
    \E t \in Tasks :
        /\ hist[t].mode = "resume"
        /\ hist[t].info.partUploadStatus = Some(<<TRUE, FALSE, FALSE>>)
        /\ hist[t].puts = <<1, 2>>
        /\ hist[t].result = "ok"
        /\ RowOf(t).status = "completed"
        /\ RowOf(t).lastAttempted = MaxAttempts

\* C23: when two calls of putExistingMultipartFile have both loaded the same
\* session as pending and take their steps in any order, no step moves the
\* stored status of that session from completed back to uploaded.
C23_NoRegressionUnderRace ==
    [][\A k \in DOMAIN db :
           (/\ db[k].status = "completed"
            /\ \A t \in Tasks : /\ hist[t].mode = "resume"
                                /\ hist[t].info.status = "pending"
                                /\ hist[t].info.objectKey = k)
               => (k \in DOMAIN db' /\ db'[k].status # "uploaded")]_vars

\* C24: for a file sent in n = ceil(fileSize / partSize) parts, the byte ranges
\* streamed for the parts 0..n-1 lie in [0, fileSize), and every byte of the
\* file is in the range of exactly one part.
C24_RangesPartitionFile ==
    \A t \in Tasks :
        LET p == hist[t].lastPut
            R(i) == PartRange(i, p.partsLength, p.fileLen, p.partSize)
        IN  (p.part # -1 /\ p.partsLength = CeilDiv(p.fileLen, p.partSize)) =>
                /\ p.range = R(p.part)
                /\ \A i \in 0..(p.partsLength - 1) :
                       /\ R(i)[1] = i * p.partSize
                       /\ R(i)[1] < R(i)[2]
                       /\ R(i)[2] <= p.fileLen
                /\ \A b \in 0..(p.fileLen - 1) :
                       Cardinality({i \in 0..(p.partsLength - 1) :
                                       R(i)[1] <= b /\ b < R(i)[2]}) = 1

C24_Witness ==
    \E t \in Tasks :
        /\ hist[t].lastPut.part = 2
        /\ hist[t].lastPut.partsLength = 3
        /\ hist[t].lastPut.fileLen = 7
        /\ hist[t].lastPut.partSize = 3
        /\ hist[t].lastPut.range = <<6, 7>>

\* C25: a resume computes the offset and the length of every part from the part
\* size stored with the session when it was created, whatever the tier of the
\* user is when the resume runs.
C25_ResumeUsesStoredPartSize ==
    \A t \in Tasks :
        (hist[t].mode = "resume" /\ Tracked(t)) =>
            LET row == RowOf(t)
                p == hist[t].lastPut
            IN  /\ pc[t] \in {"put", "awaitPut", "updatePartStatus"} =>
                       loc[t].partSize = row.partSize
                /\ p.part # -1 =>
                       /\ p.partSize = row.partSize
                       /\ p.range = PartRange(p.part, row.partsLength, row.fileSize,
                                              row.partSize)
                       /\ p.contentLength = PartContentLength(p.part, row.partsLength,
                                                              row.fileSize, row.partSize)

C25_Witness ==
    \E t \in Tasks :
        /\ hist[t].mode = "resume"
        /\ pc[t] = "awaitPut"
        /\ ~internalUser
        /\ RowOf(t).partSize = multipartPartSizeInternal
        /\ hist[t].lastPut.part = 1
        /\ hist[t].lastPut.range = <<multipartPartSizeInternal, 2 * multipartPartSizeInternal>>
        /\ hist[t].lastPut.contentLength = multipartPartSizeInternal

\* C26: for a session created with file key K and file nonce N under a
\* collection key, getEncryptionResult for the same tuple returns key K and header
\* N when the collection has that same key, and fails, returning nothing, when
\* the collection has another key.
C26_KeyRoundTrip ==
    \A t, u \in Tasks :
        (/\ hist[t].mode = "fresh"
         /\ hist[t].keyIn # None
         /\ Tracked(t)
         /\ hist[u].mode = "getEncryptionResult"
         /\ hist[u].info.objectKey = hist[t].info.objectKey) =>
            LET created == hist[t].keyIn[1]
            IN  IF hist[u].keyIn[1].collectionKey = created.collectionKey
                THEN /\ hist[u].result = "ok"
                     /\ hist[u].ret = Some([key |-> created.fileKey,
                                            header |-> created.fileNonce])
                ELSE /\ hist[u].result = "KeyMaterialError"
                     /\ hist[u].ret = None

C26_Witness ==
    \E t, u \in Tasks :
        /\ hist[t].mode = "fresh"
        /\ hist[t].keyIn # None
        /\ Tracked(t)
        /\ hist[t].keyIn[1].collectionKey = "ck2"
        /\ hist[u].mode = "getEncryptionResult"
        /\ hist[u].info.objectKey = hist[t].info.objectKey
        /\ hist[u].ret = Some([key |-> "fk2", header |-> "fn1"])

====
